---- MODULE Spec2Model ----
(***************************************************************************)
(* dailytask: scheduled tasks over two authenticated HTTP sessions.        *)
(*                                                                         *)
(*   Spec          one task function at a time (scheduler/_yunyu.py,       *)
(*                 scheduler/_redsea.py) running its public operations      *)
(*                 (api/_yunyu.py, api/_redsea.py) through the tenacity     *)
(*                 retry wrapper and the httpx event hooks, and sending     *)
(*                 its notification (notification/_ntfy.py).                *)
(*   SpecRegistry  the boundary API of app.py over the AsyncScheduler.      *)
(*                                                                         *)
(* Remote servers are environment: every answer they give is chosen        *)
(* nondeterministically.  Synchronous code (the blocking httpx calls made  *)
(* by the hooks) runs inside the action of the hook that calls it.         *)
(***************************************************************************)
EXTENDS Naturals, Sequences, FiniteSets, TLC

VARIABLES
    \* ---- billing session, api/_yunyu.py
    yunyu,      \* [access_token, refresh_token, access_file, refresh_file,
                \*  cache_dir, privileged]
    \* ---- attendance session, api/_redsea.py
    redsea,     \* [user, cookies]
    \* ---- the public operation in progress (tenacity wrapper + hooks)
    op,         \* the public operation called last, "none" before any
    cpc,        \* position inside the current attempt, "idle" = no call
    attempt,    \* attempt number of the current call, 0 when no call
    iattempt,   \* attempt number of RedSea._fetch_user_info inside _init
    resp,       \* the server's answer to the current attempt
    exc,        \* exception that ended the current attempt
    hist,       \* per call: one record per attempt made so far
    ret,        \* how the last call ended: "none", "ok" or the exception
    \* ---- the task function in progress
    task,       \* name of the task function started
    tpc,        \* position inside the task function
    workday,    \* what the workday oracle answers today
    oracle,     \* what the oracle call of this run returned
    delay_sec,  \* seconds slept by lazy_with_random_delay, 0 = no sleep
    lazyCalls,  \* invocations of lazy() in this run
    sent,       \* calls of ntfy.send in this run, in order
    sendTry,    \* attempt number of the ntfy.send in progress
    failure,    \* exception caught by the task's except block, or "none"
    opsOk,      \* public operations of this run that returned normally
    contacted,  \* services a request was sent to in this run
    outcome,    \* "idle", "running", "returned" or "raised"
    \* ---- schedule registry and boundary API, app.py
    started,    \* lifespan has run
    schedules,  \* data store of async_scheduler: id -> schedule
    db,         \* app.py db: sequence of Task
    nextId,     \* number of ids handed out by the scheduler
    running,    \* id -> in-flight firings of that id
    fired,      \* id -> task invocations started for that id
    origin,     \* id -> how the id was created: "cron", "date" or "job"
    halted,     \* schedules paused through the API and not resumed since
    response,   \* the last response of the boundary API
    \* ---- a session function called on its own
    last,       \* the last call: [fn, before, script, exc, calls, again]
    \* ---- operations running concurrently on the one event loop
    co,         \* coroutine -> [pc, svc, n]: position, session, attempt
    thread,     \* coroutine inside a blocking call on the loop's thread, or 0
    accessed,   \* credential accesses of the last step: [site, kind, locked]
    \* ---- API requests being handled, suspended at an await
    req         \* coroutine -> [h, snap, i, data, id]: handler and its locals

sessionVars == <<yunyu, redsea>>
callVars == <<op, cpc, attempt, iattempt, resp, exc, hist, ret>>
taskVars == <<task, tpc, workday, oracle, delay_sec, lazyCalls, sent, sendTry,
              failure, opsOk, contacted, outcome>>
regVars == <<started, schedules, db, nextId, running, fired, origin, halted,
             response>>
loopVars == <<co, thread, accessed>>
auxVars == <<last, loopVars, req>>
vars == <<sessionVars, callVars, taskVars, regVars, auxVars>>

(***************************************************************************)
(* Values                                                                  *)
(***************************************************************************)
\* stop_after_attempt(3) of every @retry in the repository
MaxAttempts == 3
\* NtfyPriority.MAX_PRIORITY
MAX_PRIORITY == 5
\* upper end of the random delay drawn by lazy_with_random_delay
MaxDelaySec == 2
\* tasks created through POST /api/task
MaxTasks == 1
\* firings of schedules that are followed
MaxFires == 2
\* coroutines that call session operations at the same time
MaxCoroutines == 2

NoFile == "<no file>"
NoUser == "<no user>"
TokenValues == {"tokA", "tokB"}
CookieValues == {"sidA", "sidB"}

Unauthorized == "UnauthorizedError"
Timeout == "TimeoutException"
RuntimeErr == "RuntimeError"
RetryErr == "RetryError"
KeyErr == "KeyError"
ConnectErr == "ConnectError"
PermissionErr == "PermissionError"
NoExc == "none"

\* retry=retry_if_exception_type((UnauthorizedError, httpx.TimeoutException))
\* mutant: every exception is retried
Retryable_AnyError(e) == e # NoExc

Retryable(e) == e \in {Unauthorized, Timeout}

YunYuOps == {"fetch_prepay_energy_bills", "fetch_prepay_balance"}
RedSeaOps == {"touch_fish", "touch_fish_state"}
Ops == YunYuOps \cup RedSeaOps
ServiceOf(o) == IF o \in YunYuOps THEN "yunyu" ELSE "redsea"

(***************************************************************************)
(* Billing session: api/_yunyu.py                                          *)
(***************************************************************************)
\* What the billing server answers to login, applyToken and loginByToken:
\* a transport timeout, a server-reported failure, or the token it issues.
AuthAnswers == {"timeout", "fail"} \cup TokenValues
YunYuScripts == [refresh : AuthAnswers, login : AuthAnswers, apply : AuthAnswers]

\* config.CACHE_DIR as the process finds it: "absent", "usable" (it exists
\* and the process may create files in it) or "unusable" (it exists and
\* the process may not)
CacheDirStates == {"absent", "usable", "unusable"}

\* os.mkdir(config.CACHE_DIR, mode=0x700): 0x700 is 0o3400, so the owner
\* gets read permission only; a process that is not privileged can then
\* neither search the directory nor create a file in it
YunYu_mkdir(s) ==
    IF s.cache_dir = "absent"
    THEN [s EXCEPT !.cache_dir = IF s.privileged THEN "usable" ELSE "unusable"]
    ELSE s

\* open(path, "w+") and fp.write(text): on POSIX the text is stored as is
TextWrite(text) == text

\* open(path) and fp.read(): universal newlines, "\r\n" and "\r" are
\* read back as "\n"; any other text is read back as stored
TextRead(text) ==
    CASE text = "tok\r" -> "tok\n"
      [] text = "tok\r\n" -> "tok\n"
      [] OTHER -> text

\* the two _save_*_to_file: [s: session after, exc: raised]
YunYu_save_refresh_token_to_file(s) ==
    LET d == YunYu_mkdir(s)
    IN  IF d.cache_dir = "unusable"
        THEN [s |-> d, exc |-> PermissionErr]
        ELSE [s |-> [d EXCEPT !.refresh_file = TextWrite(d.refresh_token)],
              exc |-> NoExc]

YunYu_save_access_token_to_file(s) ==
    LET d == YunYu_mkdir(s)
    IN  IF d.cache_dir = "unusable"
        THEN [s |-> d, exc |-> PermissionErr]
        ELSE [s |-> [d EXCEPT !.access_file = TextWrite(d.access_token)],
              exc |-> NoExc]

\* the two _get_*_from_file: os.path.exists(path) is False for a file
\* that is not there and for any path under a directory that the process
\* may not search
YunYu_get_refresh_token_from_file(s) ==
    IF s.cache_dir # "usable" \/ s.refresh_file = NoFile
    THEN s
    ELSE [s EXCEPT !.refresh_token = TextRead(s.refresh_file)]

\* mutant: the access token read from the other file
YunYu_get_access_token_from_file_Other(s) ==
    IF s.cache_dir # "usable" \/ s.refresh_file = NoFile
    THEN s
    ELSE [s EXCEPT !.access_token = TextRead(s.refresh_file)]

YunYu_get_access_token_from_file(s) ==
    IF s.cache_dir # "usable" \/ s.access_file = NoFile
    THEN s
    ELSE [s EXCEPT !.access_token = TextRead(s.access_file)]

\* YunYu.__init__ over the storage of s: the class defaults "", then the
\* two reads
YunYu_init(s) ==
    YunYu_get_access_token_from_file(
        YunYu_get_refresh_token_from_file(
            [s EXCEPT !.access_token = "", !.refresh_token = ""]))

\* _apply_token, _login, _refresh_access_token: the result of the call as
\* [s: session after, exc: raised, calls: exchanges with the server]
YunYu_apply_token(s, a) ==
    CASE a.apply = "timeout" ->
           [s |-> s, exc |-> Timeout, calls |-> <<"applyToken">>]
      [] a.apply = "fail" ->
           [s |-> s, exc |-> NoExc, calls |-> <<"applyToken">>]
      [] OTHER ->
           LET w == YunYu_save_refresh_token_to_file(
                        [s EXCEPT !.refresh_token = a.apply])
           IN  [s |-> w.s, exc |-> w.exc, calls |-> <<"applyToken">>]

\* mutant: a rejected login forgets the access token
YunYu_login_Forgets(s, a) ==
    [s |-> [s EXCEPT !.access_token = ""], exc |-> NoExc, calls |-> <<"login">>]

YunYu_login(s, a) ==
    CASE a.login = "timeout" ->
           [s |-> s, exc |-> Timeout, calls |-> <<"login">>]
      [] a.login = "fail" ->
           [s |-> s, exc |-> NoExc, calls |-> <<"login">>]
      [] OTHER ->
           LET w == YunYu_save_access_token_to_file(
                        [s EXCEPT !.access_token = a.login])
               t == YunYu_apply_token(w.s, a)
           IN  IF w.exc # NoExc
               THEN [s |-> w.s, exc |-> w.exc, calls |-> <<"login">>]
               ELSE [s |-> t.s, exc |-> t.exc, calls |-> <<"login">> \o t.calls]

YunYu_refresh_access_token(s, a) ==
    CASE a.refresh = "timeout" ->
           [s |-> s, exc |-> Timeout, calls |-> <<"loginByToken">>]
      [] a.refresh = "fail" ->
           LET l == YunYu_login(s, a)
           IN  [s |-> l.s, exc |-> l.exc, calls |-> <<"loginByToken">> \o l.calls]
      [] OTHER ->
           LET w == YunYu_save_access_token_to_file(
                        [s EXCEPT !.access_token = a.refresh])
           IN  [s |-> w.s, exc |-> w.exc, calls |-> <<"loginByToken">>]

\* result["code"] == -5
YunYuMarker(r) == r = "unauthorized"
YunYuAnswers == {"ok", "unauthorized", "failure", "timeout"}

(***************************************************************************)
(* Attendance session: api/_redsea.py                                      *)
(***************************************************************************)
RedSeaScripts == [token : {"ok", "fail", "timeout"},
                  login : {"fail", "timeout"} \cup CookieValues]

\* _create_token: the exception it raises, NoExc when it returns a token
RedSea_create_token(a) ==
    CASE a.token = "ok" -> NoExc
      [] a.token = "timeout" -> Timeout
      [] OTHER -> RuntimeErr

\* mutant: a rejected login throws the stored cookies away
RedSea_login_DropsCookies(s, a) ==
    IF RedSea_create_token(a) # NoExc
    THEN [s |-> s, exc |-> RedSea_create_token(a)]
    ELSE CASE a.login = "timeout" -> [s |-> s, exc |-> Timeout]
           [] a.login = "fail" ->
                [s |-> [s EXCEPT !.cookies = "none"], exc |-> RuntimeErr]
           [] OTHER -> [s |-> [s EXCEPT !.cookies = a.login], exc |-> NoExc]

\* _login: [s: session after, exc: raised]
RedSea_login(s, a) ==
    IF RedSea_create_token(a) # NoExc
    THEN [s |-> s, exc |-> RedSea_create_token(a)]
    ELSE CASE a.login = "timeout" -> [s |-> s, exc |-> Timeout]
           [] a.login = "fail" -> [s |-> s, exc |-> RuntimeErr]
           [] OTHER -> [s |-> [s EXCEPT !.cookies = a.login], exc |-> NoExc]

\* mutant: the "Nosession" check of the response hook left out
RedSeaMarker_RedirectOnly(r) == r = "redirect"

\* 302 to /RedseaPlatform/index, or a JSON body with state "Nosession"
RedSeaMarker(r) == r \in {"redirect", "nosession"}
RedSeaAnswers == {"ok", "redirect", "nosession", "failure", "timeout"}

Answers(o) == IF o \in YunYuOps THEN YunYuAnswers ELSE RedSeaAnswers

(***************************************************************************)
(* Task functions: which operation a task position calls                   *)
(***************************************************************************)
TaskFunctions == {"fetch_daily_bills", "lazy", "lazy_in_workday",
                  "lazy_with_random_delay", "lazy_with_random_delay_in_workday"}
WorkdayTasks == {"lazy_in_workday", "lazy_with_random_delay_in_workday"}
DelayTasks == {"lazy_with_random_delay", "lazy_with_random_delay_in_workday"}

OpAt(t, p) ==
    IF t = "fetch_daily_bills"
    THEN (IF p = "op1" THEN "fetch_prepay_energy_bills" ELSE "fetch_prepay_balance")
    ELSE (IF p = "op1" THEN "touch_fish" ELSE "touch_fish_state")

BlankAttempt == [sent |-> FALSE, ans |-> "none", reauth |-> 0, init |-> FALSE,
                 exc |-> NoExc, applied |-> FALSE]

\* whether the server has carried out the request of an attempt: it has
\* when it answers with success, it has not when it answers with a marker
\* or a failure; when the client times out the check-in (the one operation
\* that changes something on the server) may or may not have been taken
Effects(o, ans) ==
    CASE ans = "ok" -> {TRUE}
      [] ans = "timeout" /\ o = "touch_fish" -> {TRUE, FALSE}
      [] OTHER -> {FALSE}

(***************************************************************************)
(* Initial state: both sessions constructed (api/__init__.py) with an      *)
(* empty cache directory, no task running, the application not started.    *)
(***************************************************************************)
NoResponse == [miss |-> FALSE, status |-> 0, success |-> FALSE,
               data |-> <<>>]

\* config.YUNYU_CRON and config.REDSEA_CRON: non-empty lists of crontabs
YUNYU_CRON == <<"0 9 * * *">>
REDSEA_CRON == <<"0 8 * * 1-5">>
MaxIds == Len(YUNYU_CRON) + Len(REDSEA_CRON) + MaxTasks
Ids == 1..MaxIds
\* ids a request may carry: the ids of the schedules in the store, and 0
\* for every id that names none (never handed out, or no longer there)
RequestIds(sch) == {0} \cup DOMAIN sch
EmptyFn == [i \in {} |-> 0]

\* YunYu(...) constructed over a cache directory without token files
YunYuNew(dir, priv) ==
    YunYu_init([access_token |-> "", refresh_token |-> "",
                access_file |-> NoFile, refresh_file |-> NoFile,
                cache_dir |-> dir, privileged |-> priv])

NoCall == [fn |-> "none"]
Coroutines == 1..MaxCoroutines
Parked == [pc |-> "idle", svc |-> "none", n |-> 0]
NoRequest == [h |-> "none"]

InitRest ==
    /\ last = NoCall
    /\ co = [c \in Coroutines |-> Parked]
    /\ thread = 0
    /\ accessed = {}
    /\ req = [c \in Coroutines |-> NoRequest]
    /\ redsea = [user |-> NoUser, cookies |-> "none"]
    /\ op = "none" /\ cpc = "idle" /\ attempt = 0 /\ iattempt = 0
    /\ resp = "none" /\ exc = NoExc /\ hist = <<>> /\ ret = "none"
    /\ task = "none" /\ tpc = "idle" /\ workday = TRUE /\ oracle = "none"
    /\ delay_sec = 0 /\ lazyCalls = 0 /\ sent = <<>> /\ sendTry = 1
    /\ failure = NoExc /\ opsOk = {} /\ contacted = {} /\ outcome = "idle"
    /\ started = FALSE /\ schedules = EmptyFn /\ db = <<>> /\ nextId = 0
    /\ running = [i \in Ids |-> 0] /\ fired = [i \in Ids |-> 0]
    /\ origin = [i \in Ids |-> "none"] /\ halted = {}
    /\ response = NoResponse

\* the process started over a cache directory it can use
Init ==
    /\ yunyu = YunYuNew("usable", FALSE)
    /\ InitRest

\* the process started over any cache directory: one it can use, or none
\* (it is then created by the first save), privileged or not
InitAnyCache ==
    /\ yunyu \in {YunYuNew("usable", FALSE), YunYuNew("absent", FALSE),
                  YunYuNew("absent", TRUE)}
    /\ InitRest

(***************************************************************************)
(* The tenacity wrapper of a public operation and the httpx event hooks    *)
(***************************************************************************)
\* the awaited operation returns into the task function's try block
Return ==
    /\ ret' = "ok" /\ cpc' = "idle"
    /\ opsOk' = opsOk \cup {op}
    /\ tpc' = IF tpc = "op1" THEN "op2" ELSE "format"
    /\ UNCHANGED <<failure, sendTry>>

\* the awaited operation raises e: caught by "except Exception" of the task
Raise(e) ==
    /\ ret' = e /\ cpc' = "idle"
    /\ failure' = e /\ tpc' = "error" /\ sendTry' = 1
    /\ UNCHANGED opsOk

\* mutant: the stop condition off by one
ShouldRetry_OffByOne(e, n) == Retryable(e) /\ n <= MaxAttempts

\* mutant: no stop condition
ShouldRetry_Always(e, n) == Retryable(e)

\* stop=stop_after_attempt(3), retry=retry_if_exception_type(...)
ShouldRetry(e, n) == Retryable(e) /\ n < MaxAttempts

\* tenacity without reraise=True: an exhausted retry raises RetryError
RaisedByRetry(e) == IF Retryable(e) THEN RetryErr ELSE e

\* the attempt ended with exception e
EndAttempt(e, h) ==
    /\ exc' = e /\ cpc' = "retry"
    /\ hist' = [h EXCEPT ![Len(h)].exc = e]

\* YunYu._request_interceptor: attach the SESSION cookie
YunYu_request_interceptor ==
    /\ cpc = "request" /\ op \in YunYuOps
    /\ cpc' = "wire"
    /\ UNCHANGED <<sessionVars, op, attempt, iattempt, resp, exc, hist, ret,
                   taskVars, regVars>>
    /\ UNCHANGED auxVars

\* RedSea._request_interceptor; on first use _init starts with _login
RedSea_request_interceptor ==
    /\ cpc = "request" /\ op \in RedSeaOps
    /\ IF redsea.user = NoUser
       THEN \E a \in RedSeaScripts :
              LET r == RedSea_login(redsea, a)
                  h == [hist EXCEPT ![Len(hist)].init = TRUE]
              IN  /\ redsea' = r.s
                  /\ contacted' = contacted \cup {"redsea"}
                  /\ IF r.exc # NoExc
                     THEN EndAttempt(r.exc, h) /\ UNCHANGED iattempt
                     ELSE /\ cpc' = "init_fetch" /\ iattempt' = 1
                          /\ hist' = h /\ UNCHANGED exc
       ELSE /\ cpc' = "wire"
            /\ UNCHANGED <<redsea, contacted, iattempt, exc, hist>>
    /\ UNCHANGED <<yunyu, op, attempt, resp, ret, regVars,
                   task, tpc, workday, oracle, delay_sec, lazyCalls, sent,
                   sendTry, failure, opsOk, outcome>>
    /\ UNCHANGED auxVars

\* RedSea._init continued: one attempt of _fetch_user_info (its own
\* 3-attempt retry), then self.user is set and the hook raises Unauthorized
RedSea_fetch_user_info ==
    /\ cpc = "init_fetch"
    /\ \E info \in {"data", "empty", "timeout"}, a \in RedSeaScripts :
         LET r == IF info = "empty" THEN RedSea_login(redsea, a)
                  ELSE [s |-> redsea, exc |-> NoExc]
             e == CASE info = "timeout" -> Timeout
                    [] info = "empty" ->
                         (IF r.exc # NoExc THEN r.exc ELSE Unauthorized)
                    [] OTHER -> NoExc
         IN  CASE info = "data" ->
                    /\ redsea' = [redsea EXCEPT !.user = "profile"]
                    /\ EndAttempt(Unauthorized, hist)
                    /\ UNCHANGED iattempt
               [] e # NoExc /\ ShouldRetry(e, iattempt) ->
                    /\ redsea' = r.s
                    /\ iattempt' = iattempt + 1
                    /\ UNCHANGED <<cpc, exc, hist>>
               [] OTHER ->
                    /\ redsea' = r.s
                    /\ EndAttempt(RaisedByRetry(e), hist)
                    /\ UNCHANGED iattempt
    /\ UNCHANGED <<yunyu, op, attempt, resp, ret, taskVars, regVars>>
    /\ UNCHANGED auxVars

\* self.session.post / get: the request goes out and the server answers
Transmit ==
    /\ cpc = "wire"
    /\ contacted' = contacted \cup {ServiceOf(op)}
    /\ \E ans \in Answers(op) : \E done \in Effects(op, ans) :
         LET h == [hist EXCEPT ![Len(hist)].sent = TRUE,
                               ![Len(hist)].ans = ans,
                               ![Len(hist)].applied = done]
         IN  IF ans = "timeout"
             THEN EndAttempt(Timeout, h) /\ UNCHANGED resp
             ELSE /\ resp' = ans /\ cpc' = "response" /\ hist' = h
                  /\ UNCHANGED exc
    /\ UNCHANGED <<sessionVars, op, attempt, iattempt, ret, regVars,
                   task, tpc, workday, oracle, delay_sec, lazyCalls, sent,
                   sendTry, failure, opsOk, outcome>>
    /\ UNCHANGED auxVars

\* YunYu._response_interceptor
YunYu_response_interceptor ==
    /\ cpc = "response" /\ op \in YunYuOps
    /\ IF YunYuMarker(resp)
       THEN \E a \in YunYuScripts :
              LET r == YunYu_refresh_access_token(yunyu, a)
                  h == [hist EXCEPT ![Len(hist)].reauth = @ + 1]
              IN  /\ yunyu' = r.s
                  /\ EndAttempt(IF r.exc # NoExc THEN r.exc ELSE Unauthorized, h)
       ELSE /\ cpc' = "decode"
            /\ UNCHANGED <<yunyu, exc, hist>>
    /\ UNCHANGED <<redsea, op, attempt, iattempt, resp, ret, taskVars, regVars>>
    /\ UNCHANGED auxVars

\* RedSea._response_interceptor
RedSea_response_interceptor ==
    /\ cpc = "response" /\ op \in RedSeaOps
    /\ IF RedSeaMarker(resp)
       THEN \E a \in RedSeaScripts :
              LET r == RedSea_login(redsea, a)
                  h == [hist EXCEPT ![Len(hist)].reauth = @ + 1]
              IN  /\ redsea' = r.s
                  /\ EndAttempt(IF r.exc # NoExc THEN r.exc ELSE Unauthorized, h)
       ELSE /\ cpc' = "decode"
            /\ UNCHANGED <<redsea, exc, hist>>
    /\ UNCHANGED <<yunyu, op, attempt, iattempt, resp, ret, taskVars, regVars>>
    /\ UNCHANGED auxVars

\* the body of the public operation after the awaited request:
\* return the data on success, raise RuntimeError(msg) otherwise
Decode ==
    /\ cpc = "decode"
    /\ IF resp = "ok"
       THEN /\ Return
            /\ UNCHANGED <<exc, hist>>
       ELSE /\ EndAttempt(RuntimeErr, hist)
            /\ UNCHANGED <<ret, tpc, failure, sendTry, opsOk>>
    /\ UNCHANGED <<sessionVars, op, attempt, iattempt, resp, regVars,
                   task, workday, oracle, delay_sec, lazyCalls, sent,
                   contacted, outcome>>
    /\ UNCHANGED auxVars

\* the @retry decorator: try again after wait_fixed(1), or give up
Retry ==
    /\ cpc = "retry"
    /\ IF ShouldRetry(exc, attempt)
       THEN /\ attempt' = attempt + 1 /\ cpc' = "request"
            /\ hist' = Append(hist, BlankAttempt)
            /\ exc' = NoExc /\ resp' = "none"
            /\ UNCHANGED <<ret, tpc, failure, sendTry, opsOk>>
       ELSE /\ Raise(RaisedByRetry(exc))
            /\ UNCHANGED <<attempt, hist, exc, resp>>
    /\ UNCHANGED <<sessionVars, op, iattempt, regVars,
                   task, workday, oracle, delay_sec, lazyCalls, sent,
                   contacted, outcome>>
    /\ UNCHANGED auxVars

(***************************************************************************)
(* Task functions: scheduler/_yunyu.py, scheduler/_redsea.py               *)
(***************************************************************************)
\* A task function is invoked (by the scheduler, or by main.py); the
\* histories of the previous run are reset.  The first position is the
\* first statement of the function.
FirstPosition(t) ==
    CASE t \in WorkdayTasks -> "oracle"
      [] t = "lazy_with_random_delay" -> "sleep"
      [] OTHER -> "op1"

StartTask(t) ==
    /\ outcome # "running"
    /\ task' = t /\ tpc' = FirstPosition(t) /\ outcome' = "running"
    /\ workday' \in BOOLEAN
    /\ oracle' = "none" /\ delay_sec' = 0
    /\ lazyCalls' = IF t = "lazy" THEN 1 ELSE 0
    /\ sent' = <<>> /\ sendTry' = 1 /\ failure' = NoExc /\ opsOk' = {}
    /\ contacted' = {}
    /\ op' = "none" /\ cpc' = "idle" /\ attempt' = 0 /\ iattempt' = 0
    /\ resp' = "none" /\ exc' = NoExc /\ hist' = <<>> /\ ret' = "none"
    /\ UNCHANGED <<sessionVars, regVars>>
    /\ UNCHANGED auxVars

\* utils.is_workday: the GET fails (transport error, or the assert on
\* result["success"]), or returns result["data"]["isWorkday"]
IsWorkdayResult(ans, w) ==
    CASE ans = "error" -> "error"
      [] w -> "true"
      [] OTHER -> "false"

\* mutant: the wrappers go on whatever the oracle returned
AfterOracle_NoSkip(t, r) == IF t = "lazy_in_workday" THEN "op1" ELSE "sleep"

\* lazy_in_workday / lazy_with_random_delay_in_workday after the oracle
\* returned r: return on a holiday, else go on to lazy / the delay
AfterOracle(t, r) ==
    CASE r = "false" -> "idle"
      [] t = "lazy_in_workday" -> "op1"
      [] OTHER -> "sleep"

\* the oracle call at the head of the two wrappers: no try block around it
is_workday ==
    /\ tpc = "oracle"
    /\ contacted' = contacted \cup {"workday"}
    /\ \E ans \in {"answer", "error"} :
         LET r == IsWorkdayResult(ans, workday)
         IN  /\ oracle' = r
             /\ IF r = "error"
                THEN /\ outcome' = "raised" /\ tpc' = "idle"
                     /\ UNCHANGED lazyCalls
                ELSE /\ tpc' = AfterOracle(task, r)
                     /\ outcome' = IF tpc' = "idle" THEN "returned" ELSE outcome
                     /\ lazyCalls' = IF tpc' = "op1" THEN lazyCalls + 1
                                     ELSE lazyCalls
    /\ UNCHANGED <<sessionVars, callVars, regVars, task, workday, delay_sec,
                   sent, sendTry, failure, opsOk>>
    /\ UNCHANGED auxVars

\* lazy_with_random_delay: sleep random.randint(min_sec, max_sec), then lazy()
lazy_with_random_delay ==
    /\ tpc = "sleep"
    /\ \E d \in 1..MaxDelaySec : delay_sec' = d
    /\ tpc' = "op1" /\ lazyCalls' = lazyCalls + 1
    /\ UNCHANGED <<sessionVars, callVars, regVars, task, workday, oracle,
                   sent, sendTry, failure, opsOk, contacted, outcome>>
    /\ UNCHANGED auxVars

\* the try block awaits the next public operation: attempt 1 begins
CallOperation ==
    /\ tpc \in {"op1", "op2"} /\ cpc = "idle"
    /\ op' = OpAt(task, tpc) /\ cpc' = "request" /\ attempt' = 1
    /\ hist' = <<BlankAttempt>> /\ ret' = "none" /\ exc' = NoExc
    /\ resp' = "none" /\ iattempt' = 0
    /\ UNCHANGED <<sessionVars, taskVars, regVars>>
    /\ UNCHANGED auxVars

\* the frame of the finished call (the wrapper's locals) is gone
DropCall ==
    /\ op' = "none" /\ cpc' = "idle" /\ attempt' = 0 /\ iattempt' = 0
    /\ resp' = "none" /\ exc' = NoExc /\ hist' = <<>> /\ ret' = "none"

\* building the message from the results; indexing the payload may raise
FormatMessage ==
    /\ tpc = "format"
    /\ \E ok \in BOOLEAN :
         IF ok THEN tpc' = "send" /\ UNCHANGED failure
         ELSE tpc' = "error" /\ failure' = KeyErr
    /\ sendTry' = 1
    /\ DropCall
    /\ UNCHANGED <<sessionVars, regVars, task, workday, oracle,
                   delay_sec, lazyCalls, sent, opsOk, contacted, outcome>>
    /\ UNCHANGED auxVars

\* the notification a task position sends
Notification(p) ==
    IF p = "send"
    THEN [topic |-> "daily", priority |-> 0, tries |-> 1, result |-> "pending"]
    ELSE [topic |-> "error", priority |-> MAX_PRIORITY, tries |-> 1,
          result |-> "pending"]

\* NtfyClient.send: retried on httpx.TimeoutException only, 3 attempts;
\* a server-reported error is logged and returned
SendResult(ans, n) ==
    CASE ans \in {"ok", "error"} -> "returned"
      [] ans = "timeout" /\ n < MaxAttempts -> "pending"
      [] OTHER -> "raised"

ntfy_send ==
    /\ tpc \in {"send", "error"}
    /\ contacted' = contacted \cup {"ntfy"}
    /\ \E ans \in {"ok", "error", "timeout", "fault"} :
         LET res == SendResult(ans, sendTry)
             log == IF sendTry = 1 THEN Append(sent, Notification(tpc)) ELSE sent
         IN  /\ sent' = [log EXCEPT ![Len(log)].tries = sendTry,
                                    ![Len(log)].result = res]
             /\ CASE res = "pending" ->
                       /\ sendTry' = sendTry + 1
                       /\ UNCHANGED <<tpc, failure, outcome>>
                  [] res = "returned" ->
                       /\ tpc' = "idle" /\ outcome' = "returned"
                       /\ sendTry' = 1 /\ UNCHANGED failure
                  [] res = "raised" /\ tpc = "send" ->
                       /\ tpc' = "error" /\ sendTry' = 1
                       /\ failure' = IF ans = "timeout" THEN RetryErr ELSE ConnectErr
                       /\ UNCHANGED outcome
                  [] OTHER ->
                       /\ tpc' = "idle" /\ outcome' = "raised"
                       /\ sendTry' = 1 /\ UNCHANGED failure
    /\ DropCall
    /\ UNCHANGED <<sessionVars, regVars, task, workday, oracle,
                   delay_sec, lazyCalls, opsOk>>
    /\ UNCHANGED auxVars

Next ==
    \/ \E t \in TaskFunctions : StartTask(t)
    \/ is_workday
    \/ lazy_with_random_delay
    \/ CallOperation
    \/ YunYu_request_interceptor
    \/ RedSea_request_interceptor
    \/ RedSea_fetch_user_info
    \/ Transmit
    \/ YunYu_response_interceptor
    \/ RedSea_response_interceptor
    \/ Decode
    \/ Retry
    \/ FormatMessage
    \/ ntfy_send

Spec == InitAnyCache /\ [][Next]_vars

(***************************************************************************)
(* Properties of the retry wrapper and the task functions                  *)
(***************************************************************************)
CallOver == cpc = "idle" /\ hist # <<>>
AttemptOver(i) == i < Len(hist) \/ cpc \in {"retry", "idle"}
Markers == {"unauthorized", "redirect", "nosession"}
TaskOver == outcome \in {"returned", "raised"}

\* C1: a call of a public operation makes at most 3 attempts; an attempt is
\* followed by another one only if it ended with Unauthorized or a timeout;
\* when all 3 attempts end that way the call fails and the failure reaches
\* the caller.
C1_RetryBudget ==
    /\ attempt <= 3 /\ Len(hist) <= 3 /\ Len(hist) = attempt
    /\ \A i \in 1..Len(hist) :
         i < Len(hist) => hist[i].exc \in {Unauthorized, Timeout}
    /\ (CallOver /\ Len(hist) = 3 /\ hist[3].exc \in {Unauthorized, Timeout})
         => /\ ret \notin {"none", "ok"}
            /\ failure = ret /\ tpc = "error"

C1_Witness ==
    /\ CallOver /\ op = "touch_fish_state" /\ Len(hist) = 3
    /\ \A i \in 1..3 : hist[i].exc \in {Unauthorized, Timeout}
    /\ hist[2].exc = Timeout /\ hist[3].exc = Unauthorized
    /\ failure = ret /\ ret # "ok"

\* C2: an attempt answered with an invalidation marker runs exactly one
\* re-authentication before the next attempt (and an attempt answered
\* otherwise runs none), and the call succeeds exactly when the service
\* answered success on one of its attempts.
C2_ReauthPerMarker ==
    /\ \A i \in 1..Len(hist) :
         AttemptOver(i) =>
             hist[i].reauth = (IF hist[i].ans \in Markers THEN 1 ELSE 0)
    /\ CallOver => (ret = "ok" <=> \E i \in 1..Len(hist) : hist[i].ans = "ok")

C2_Witness ==
    /\ CallOver /\ Len(hist) = 3 /\ ret = "ok"
    /\ hist[1].ans \in Markers /\ hist[2].ans \in Markers
    /\ hist[1].reauth = 1 /\ hist[2].reauth = 1 /\ hist[3].ans = "ok"

\* C3: no task function ever raises to its caller.
C3_TaskNeverRaises == outcome # "raised"

\* C4: every run of fetch_daily_bills or lazy sends exactly one
\* notification: the normal one when all operations and the formatting
\* succeeded, else the error one at maximum priority.
AllSucceeded ==
    /\ opsOk = {OpAt(task, "op1"), OpAt(task, "op2")}
    /\ failure # KeyErr
C4_ExactlyOneNotification ==
    (task \in {"fetch_daily_bills", "lazy"} /\ TaskOver) =>
        /\ Len(sent) = 1
        /\ AllSucceeded => sent[1].topic = "daily"
        /\ ~AllSucceeded =>
             sent[1].topic = "error" /\ sent[1].priority = MAX_PRIORITY

\* C5: the billing task fired on a non-workday makes no request to the
\* billing service and sends no notification.
C5_NoBillingOnHoliday ==
    (task = "fetch_daily_bills" /\ ~workday) =>
        ("yunyu" \notin contacted /\ sent = <<>>)

\* C6: when the oracle returns false the two workday wrappers skip
\* entirely (no delay, no attendance request, no notification); when it
\* returns true lazy is invoked exactly once.
C6_WorkdayGate ==
    task \in WorkdayTasks =>
        /\ oracle = "false" =>
             /\ delay_sec = 0 /\ lazyCalls = 0 /\ sent = <<>>
             /\ contacted = {"workday"} /\ outcome = "returned"
             /\ hist = <<>>
        /\ oracle = "true" =>
             /\ lazyCalls <= 1
             /\ (TaskOver \/ tpc \notin {"oracle", "sleep"}) => lazyCalls = 1
        /\ lazyCalls = 1 => oracle = "true"

C6_Witness ==
    /\ task = "lazy_with_random_delay_in_workday"
    /\ oracle = "false" /\ outcome = "returned" /\ ~workday

(***************************************************************************)
(* Schedule registry and boundary API: app.py                              *)
(*                                                                         *)
(* async_scheduler is an apscheduler AsyncScheduler with its in-memory     *)
(* data store.  What app.py relies on, as the library release that offers  *)
(* pause_schedule / unpause_schedule / Schedule.paused behaves:            *)
(*   - add_schedule and add_job return a fresh id;                         *)
(*   - get_schedule, pause_schedule and unpause_schedule raise             *)
(*     ScheduleLookupError for an id that names no schedule;               *)
(*   - remove_schedule of such an id does nothing and raises nothing;      *)
(*   - a schedule is processed when it is due and not paused; a schedule   *)
(*     whose trigger has no further fire time stays in the store until the *)
(*     scheduler's periodic cleanup finds it with no job running.          *)
(* Time is abstracted: a cron schedule may become due at any moment, a     *)
(* date schedule at any moment after it was added.                         *)
(***************************************************************************)
Schedule(trig, f) ==
    [trigger |-> trig, func |-> f, paused |-> FALSE, exhausted |-> FALSE,
     last_fire_time |-> FALSE]

\* mutant: remove_schedule leaves the store as it is
Without_Keeps(sch, ids) == sch

Without(sch, ids) == [i \in (DOMAIN sch) \ ids |-> sch[i]]
With(sch, id, v) == [i \in (DOMAIN sch) \cup {id} |-> IF i = id THEN v ELSE sch[i]]

\* the task of db with the Task type of a schedule function
TaskTypeOf(f) == IF f = "fetch_daily_bills" THEN "yunyu" ELSE "redsea"

\* lifespan: one cron schedule per configured crontab, each recorded in db
RECURSIVE AddCrons(_, _, _, _)
AddCrons(st, crons, f, i) ==
    IF i > Len(crons) THEN st
    ELSE AddCrons(
           [schedules |-> With(st.schedules, st.nextId + 1, Schedule("cron", f)),
            db |-> Append(st.db, [id |-> st.nextId + 1, type |-> TaskTypeOf(f)]),
            nextId |-> st.nextId + 1,
            origin |-> [st.origin EXCEPT ![st.nextId + 1] = "cron"]],
           crons, f, i + 1)

lifespan ==
    /\ ~started
    /\ LET s0 == [schedules |-> schedules, db |-> db, nextId |-> nextId,
                  origin |-> origin]
           s1 == AddCrons(s0, YUNYU_CRON, "fetch_daily_bills", 1)
           s2 == AddCrons(s1, REDSEA_CRON, "lazy_with_random_delay_in_workday", 1)
       IN  /\ schedules' = s2.schedules /\ db' = s2.db
           /\ nextId' = s2.nextId /\ origin' = s2.origin
    /\ started' = TRUE
    /\ UNCHANGED <<running, fired, halted, response, sessionVars, callVars,
                   taskVars>>
    /\ UNCHANGED auxVars

\* mutant: the error envelope built as a success acknowledgment
ApiE_AsOk(l, code) ==
    [miss |-> l, status |-> 200, success |-> TRUE, data |-> <<>>]

\* ApiResult.ok / ApiResult.e
HTTP_200_OK == 200
\* "miss" notes that the id of the request named no schedule
ApiOk(l, d) ==
    [miss |-> l, status |-> HTTP_200_OK, success |-> TRUE, data |-> d]
ApiE(l, code) ==
    [miss |-> l, status |-> code, success |-> FALSE, data |-> <<>>]

\* an uncaught exception of a handler: global_exception_handler
HTTP_500_INTERNAL_SERVER_ERROR == 500
HTTP_401_UNAUTHORIZED == 401
global_exception_handler(l) ==
    ApiE(l, HTTP_500_INTERNAL_SERVER_ERROR)

\* the id names no schedule of the data store
Lookup(sch, id) == id \notin DOMAIN sch

\* config.API_TOKEN, and what a request may carry as Authorization: the
\* token, another value, or no header at all (headers.get returns None)
API_TOKEN == "api-token"
AuthorizationValues == {API_TOKEN, "other", "None"}

\* interceptor: token == config.API_TOKEN
Authorized(token) == token = API_TOKEN

\* interceptor: a request, to any route, whose Authorization is not
\* config.API_TOKEN is answered without call_next.  (An authorized request
\* is the handler's action.)
interceptor ==
    /\ started
    /\ {token \in AuthorizationValues : ~Authorized(token)} # {}
    /\ response' = ApiE(FALSE, HTTP_401_UNAUTHORIZED)
    /\ UNCHANGED <<started, schedules, db, nextId, running, fired, origin,
                   halted, sessionVars, callVars, taskVars>>
    /\ UNCHANGED auxVars

\* the loop shared by get_cron_task and get_date_task: ids whose schedule
\* is gone are removed from db
Pruned(d, sch) == SelectSeq(d, LAMBDA t : t.id \in DOMAIN sch)

CronTaskData(d, sch) ==
    LET live == SelectSeq(d, LAMBDA t : t.id \in DOMAIN sch
                                        /\ sch[t.id].trigger = "cron")
    IN  [i \in 1..Len(live) |->
            [id |-> live[i].id, running |-> ~sch[live[i].id].paused,
             task_type |-> live[i].type]]

\* mutant: the isinstance(schedule.trigger, DateTrigger) test left out
DateTaskData_AnyKind(d, sch) ==
    LET live == SelectSeq(d, LAMBDA t : t.id \in DOMAIN sch)
    IN  [i \in 1..Len(live) |-> [id |-> live[i].id, task_type |-> live[i].type]]

DateTaskData(d, sch) ==
    LET live == SelectSeq(d, LAMBDA t : t.id \in DOMAIN sch
                                        /\ sch[t.id].trigger = "date")
    IN  [i \in 1..Len(live) |-> [id |-> live[i].id, task_type |-> live[i].type]]

get_cron_task ==
    /\ started
    /\ db' = Pruned(db, schedules)
    /\ response' = ApiOk(FALSE, CronTaskData(db, schedules))
    /\ UNCHANGED <<started, schedules, nextId, running, fired, origin, halted,
                   sessionVars, callVars, taskVars>>
    /\ UNCHANGED auxVars

get_date_task ==
    /\ started
    /\ db' = Pruned(db, schedules)
    /\ response' = ApiOk(FALSE, DateTaskData(db, schedules))
    /\ UNCHANGED <<started, schedules, nextId, running, fired, origin, halted,
                   sessionVars, callVars, taskVars>>
    /\ UNCHANGED auxVars

\* mutant: the handler acknowledges without touching the schedule
SetPaused_Noop(sch, id, p) == sch

\* async_scheduler.pause_schedule / unpause_schedule of an existing id
SetPaused(sch, id, p) == [sch EXCEPT ![id].paused = p]

pause_cron_task ==
    /\ started
    /\ \E id \in RequestIds(schedules) :
         IF id \in DOMAIN schedules
         THEN /\ schedules' = SetPaused(schedules, id, TRUE)
              /\ halted' = halted \cup {id}
              /\ response' = ApiOk(FALSE, <<>>)
         ELSE /\ response' = global_exception_handler(TRUE)
              /\ UNCHANGED <<schedules, halted>>
    /\ UNCHANGED <<started, db, nextId, running, fired, origin,
                   sessionVars, callVars, taskVars>>
    /\ UNCHANGED auxVars

resume_cron_task ==
    /\ started
    /\ \E id \in RequestIds(schedules) :
         IF id \in DOMAIN schedules
         THEN /\ schedules' = SetPaused(schedules, id, FALSE)
              /\ halted' = halted \ {id}
              /\ response' = ApiOk(FALSE, <<>>)
         ELSE /\ response' = global_exception_handler(TRUE)
              /\ UNCHANGED <<schedules, halted>>
    /\ UNCHANGED <<started, db, nextId, running, fired, origin,
                   sessionVars, callVars, taskVars>>
    /\ UNCHANGED auxVars

\* task invocations started so far, over the ids 1..n
RECURSIVE Total(_, _)
Total(f, n) == IF n = 0 THEN 0 ELSE f[n] + Total(f, n - 1)

\* new_task: the function a task type runs
FuncOf(type) == IF type = "yunyu" THEN "fetch_daily_bills" ELSE "lazy"

\* new_task: with run_time a DateTrigger schedule is added; without it
\* add_job queues the function to run once at once (an invocation that
\* counts among the MaxFires followed).  Either id goes to db.
new_task ==
    /\ started /\ nextId < MaxIds
    /\ \E type \in {"yunyu", "redsea"}, run_time \in {"none", "time"} :
         LET id == nextId + 1 IN
         /\ nextId' = id
         /\ db' = Append(db, [id |-> id, type |-> type])
         /\ IF run_time # "none"
            THEN /\ schedules' = With(schedules, id, Schedule("date", FuncOf(type)))
                 /\ origin' = [origin EXCEPT ![id] = "date"]
                 /\ UNCHANGED <<running, fired>>
            ELSE /\ Total(fired, MaxIds) < MaxFires
                 /\ origin' = [origin EXCEPT ![id] = "job"]
                 /\ fired' = [fired EXCEPT ![id] = 1]
                 /\ running' = [running EXCEPT ![id] = 1]
                 /\ UNCHANGED schedules
         /\ response' = ApiOk(FALSE, <<[id |-> id, task_type |-> type]>>)
    /\ UNCHANGED <<started, halted, sessionVars, callVars, taskVars>>
    /\ UNCHANGED auxVars

\* delete_date_task: async_scheduler.remove_schedule(task_id), then ok()
delete_date_task ==
    /\ started
    /\ \E id \in RequestIds(schedules) :
         /\ schedules' = Without(schedules, {id})
         /\ halted' = halted \ {id}
         /\ response' = ApiOk(Lookup(schedules, id), <<>>)
    /\ UNCHANGED <<started, db, nextId, running, fired, origin,
                   sessionVars, callVars, taskVars>>
    /\ UNCHANGED auxVars

\* delete_all_date_task: every task of db whose schedule has a DateTrigger
DateIdsOf(d, sch) ==
    {d[i].id : i \in {j \in 1..Len(d) : d[j].id \in DOMAIN sch
                                         /\ sch[d[j].id].trigger = "date"}}

delete_all_date_task ==
    /\ started
    /\ schedules' = Without(schedules, DateIdsOf(db, schedules))
    /\ halted' = halted \ DateIdsOf(db, schedules)
    /\ response' = ApiOk(FALSE, <<>>)
    /\ UNCHANGED <<started, db, nextId, running, fired, origin,
                   sessionVars, callVars, taskVars>>
    /\ UNCHANGED auxVars

\* the scheduler processes a due schedule: the task function is invoked
CanFire(sch, id) ==
    id \in DOMAIN sch /\ ~sch[id].paused /\ ~sch[id].exhausted

Fire ==
    /\ started
    /\ \E id \in Ids :
         /\ CanFire(schedules, id) /\ Total(fired, MaxIds) < MaxFires
         /\ fired' = [fired EXCEPT ![id] = @ + 1]
         /\ running' = [running EXCEPT ![id] = @ + 1]
         /\ schedules' = [schedules EXCEPT
                            ![id].last_fire_time = TRUE,
                            ![id].exhausted = (schedules[id].trigger = "date")]
    /\ UNCHANGED <<started, db, nextId, origin, halted, response,
                   sessionVars, callVars, taskVars>>
    /\ UNCHANGED auxVars

\* a firing's task function comes to its end
JobDone ==
    /\ \E id \in Ids :
         /\ running[id] > 0
         /\ running' = [running EXCEPT ![id] = @ - 1]
    /\ UNCHANGED <<started, schedules, db, nextId, fired, origin, halted,
                   response, sessionVars, callVars, taskVars>>
    /\ UNCHANGED auxVars

\* the scheduler's cleanup purges exhausted schedules with no running job
Finished(sch, run) ==
    {id \in DOMAIN sch : sch[id].exhausted /\ run[id] = 0}

Cleanup ==
    /\ Finished(schedules, running) # {}
    /\ schedules' = Without(schedules, Finished(schedules, running))
    /\ halted' = halted \ Finished(schedules, running)
    /\ UNCHANGED <<started, db, nextId, running, fired, origin,
                   response, sessionVars, callVars, taskVars>>
    /\ UNCHANGED auxVars

NextRegistry ==
    \/ lifespan
    \/ interceptor
    \/ get_cron_task
    \/ pause_cron_task
    \/ resume_cron_task
    \/ get_date_task
    \/ new_task
    \/ delete_date_task
    \/ delete_all_date_task
    \/ Fire
    \/ JobDone
    \/ Cleanup

SpecRegistry == Init /\ [][NextRegistry]_vars

(***************************************************************************)
(* Properties of the schedule registry and the boundary API                *)
(***************************************************************************)
\* ids GET /api/task/date would return in the current state
ListedDateIds ==
    {DateTaskData(db, schedules)[i].id : i \in DOMAIN DateTaskData(db, schedules)}

\* C7: a one-shot schedule created through the API invokes its task at
\* most once, and in every state after it has fired GET /api/task/date no
\* longer returns it.
C7_OneShotOnce ==
    \A id \in Ids :
        origin[id] = "date" =>
            /\ fired[id] <= 1
            /\ fired[id] >= 1 => id \notin ListedDateIds

\* C8: between pause(id) and resume(id) no invocation of the schedule's
\* task starts, and GET /api/task/cron reports the schedule as not running.
C8_ListedNotRunning ==
    \A i \in DOMAIN CronTaskData(db, schedules) :
        CronTaskData(db, schedules)[i].id \in halted
            => ~CronTaskData(db, schedules)[i].running
C9_UnknownIdIs4xx ==
    [][((pause_cron_task \/ resume_cron_task) /\ response'.miss)
         => /\ response'.status \in 400..499
            /\ UNCHANGED <<schedules, db, halted>>]_vars

\* C10: DELETE /api/task/date/{id} of an id that names no schedule answers
\* with a not-found outcome instead of a success acknowledgment, and
\* changes neither the schedules, their paused flags nor db.
C10_RemoveUnknownNotFound ==
    [][(delete_date_task /\ response'.miss)
         => /\ response'.status # HTTP_200_OK /\ ~response'.success
            /\ UNCHANGED <<schedules, db, halted>>]_vars

\* C11: a request whose Authorization is not the configured token is
\* answered 401 with success false and no data, and leaves the schedules,
\* their paused flags, db and everything else of the registry unchanged.
C11_UnauthorizedIs401 ==
    [][interceptor =>
         /\ response'.status = HTTP_401_UNAUTHORIZED
         /\ ~response'.success /\ response'.data = <<>>
         /\ UNCHANGED <<started, schedules, db, nextId, running, fired,
                        origin, halted>>]_vars

C11_Witness ==
    /\ response.status = HTTP_401_UNAUTHORIZED /\ ~response.success
    /\ halted # {} /\ Len(db) = MaxIds
    /\ \E id \in DOMAIN schedules : schedules[id].trigger = "date"

(***************************************************************************)
(* The billing session on its own: the re-authentication that the response *)
(* hook runs, under every answer of the server, and the construction of a  *)
(* fresh instance over the same cache directory.                           *)
(***************************************************************************)
\* _response_interceptor line 127: self._refresh_access_token()
YunYu_reauthenticate ==
    /\ \E a \in YunYuScripts :
         LET r == YunYu_refresh_access_token(yunyu, a)
         IN  /\ yunyu' = r.s
             /\ last' = [fn |-> "_refresh_access_token", before |-> yunyu,
                         script |-> a, exc |-> r.exc, calls |-> r.calls,
                         again |-> /\ last.fn = "_refresh_access_token"
                                   /\ last.script.refresh = "fail"
                                   /\ last.script.login = "fail"]
    /\ UNCHANGED <<redsea, callVars, taskVars, regVars, loopVars, req>>

\* the process is started again: YunYu(...) over the same storage
YunYu_restart ==
    /\ yunyu' = YunYu_init(yunyu)
    /\ last' = [fn |-> "__init__", before |-> yunyu]
    /\ UNCHANGED <<redsea, callVars, taskVars, regVars, loopVars, req>>

NextYunYu ==
    \/ YunYu_reauthenticate
    \/ YunYu_restart

SpecYunYu == InitAnyCache /\ [][NextYunYu]_vars

LoginRejected ==
    /\ last.fn = "_refresh_access_token"
    /\ last.script.refresh = "fail" /\ last.script.login = "fail"
C14_LoginBeforeFirstSend ==
    /\ cpc = "wire" =>
         IF op \in YunYuOps THEN yunyu.access_token # ""
                            ELSE redsea.user # NoUser
    /\ \A i \in DOMAIN hist :
         hist[i].init => ~hist[i].sent /\ (AttemptOver(i) => hist[i].exc # NoExc)

\* C15: a call that used up its three attempts delivers to the task
\* function the error of its last attempt (Unauthorized or the timeout).
C15_LastErrorDelivered ==
    (CallOver /\ Len(hist) = MaxAttempts
              /\ Retryable(hist[MaxAttempts].exc))
        => /\ ret = hist[MaxAttempts].exc
           /\ failure = hist[MaxAttempts].exc

\* C16: send never raises to its caller, whatever the delivery's outcome.
C16_SendNeverRaises ==
    \A i \in DOMAIN sent : sent[i].result # "raised"

\* C17: an attempt that ends with a failure other than Unauthorized or a
\* timeout is the last attempt of its call; when the failure is the
\* service's business failure, that attempt made no re-authentication; and
\* the failure itself is what the task function catches.
OtherFailure(i) ==
    AttemptOver(i) /\ hist[i].exc \notin {NoExc, Unauthorized, Timeout}
C17_OtherFailureEndsCall ==
    \A i \in DOMAIN hist :
        OtherFailure(i) =>
            /\ i = Len(hist)
            /\ hist[i].ans = "failure" =>
                  hist[i].reauth = 0 /\ ~hist[i].init
                    /\ hist[i].exc = RuntimeErr
            /\ CallOver => ret = hist[i].exc /\ failure = hist[i].exc
                              /\ tpc = "error"

C17_Witness ==
    /\ CallOver /\ Len(hist) = 2
    /\ hist[1].exc = Unauthorized /\ hist[1].reauth = 1
    /\ hist[2].ans = "failure" /\ hist[2].exc = RuntimeErr
    /\ ret = RuntimeErr /\ failure = RuntimeErr

\* C18: the re-authentication run by the billing response hook, no exchange
\* timing out: the refresh exchange comes first; login is called exactly
\* when the refresh token was rejected; a successful refresh replaces the
\* access token, writes it to its file and leaves the refresh token alone;
\* and nothing but Unauthorized is raised by the hook.
C18_RefreshThenLogin ==
    (last.fn = "_refresh_access_token" /\ last.exc # Timeout) =>
        /\ last.calls[1] = "loginByToken"
        /\ (\E i \in DOMAIN last.calls : last.calls[i] = "login")
              <=> last.script.refresh = "fail"
        /\ last.script.refresh \in TokenValues =>
              /\ yunyu.access_token = last.script.refresh
              /\ yunyu.access_file = last.script.refresh
              /\ yunyu.refresh_token = last.before.refresh_token
        /\ last.exc = NoExc

(***************************************************************************)
(* Several operations at once.  The task functions and the API handlers    *)
(* are coroutines of one asyncio event loop (main.py: asyncio.run; the     *)
(* scheduler runs coroutine functions on the loop).  A coroutine gives up  *)
(* the loop's thread only at an await.  The hooks call _refresh_access_    *)
(* token, _login and _init as plain functions that use the synchronous     *)
(* httpx.post / httpx.get: the thread stays inside the call until the      *)
(* server has answered.                                                    *)
(***************************************************************************)
\* one access to a credential: where, read or write, under "with self.lock"
Acc(site, kind, locked) == [site |-> site, kind |-> kind, locked |-> locked]

\* the accesses made by _refresh_access_token under server answers a
YunYu_reauth_accesses(a, calls) ==
    {Acc("_yunyu.py:174", "read", FALSE)}
      \cup (IF a.refresh \in TokenValues
            THEN {Acc("_yunyu.py:183", "write", TRUE),
                  Acc("_yunyu.py:100", "read", TRUE)}
            ELSE {})
      \cup (IF Len(calls) >= 2 /\ a.login \in TokenValues
            THEN {Acc("_yunyu.py:163", "write", TRUE),
                  Acc("_yunyu.py:100", "read", TRUE)}
            ELSE {})
      \cup (IF Len(calls) >= 3
            THEN {Acc("_yunyu.py:136", "read", FALSE)}
            ELSE {})
      \cup (IF Len(calls) >= 3 /\ a.apply \in TokenValues
            THEN {Acc("_yunyu.py:144", "write", TRUE),
                  Acc("_yunyu.py:89", "read", TRUE)}
            ELSE {})

\* RedSea has no lock: _login stores the cookies as it finds them
RedSea_login_accesses(r) ==
    IF r.exc = NoExc THEN {Acc("_redsea.py:158", "write", FALSE)} ELSE {}

\* _init: _login, then _fetch_user_info (its retries and re-logins taken
\* together), then self.user is set
RedSea_init(s, a, info) ==
    LET r == RedSea_login(s, a)
    IN  CASE r.exc # NoExc -> r
          [] info = "data" ->
               [s |-> [r.s EXCEPT !.user = "profile"], exc |-> NoExc]
          [] OTHER -> [s |-> r.s, exc |-> RetryErr]

RedSea_init_accesses(r) ==
    RedSea_login_accesses(r)
      \cup (IF r.exc = RuntimeErr \/ r.exc = Timeout THEN {}
            ELSE {Acc("_redsea.py:172", "read", FALSE)})
      \cup (IF r.exc = NoExc THEN {Acc("_redsea.py:124", "write", FALSE)}
            ELSE {})

\* mutant: the re-authentication awaited, the thread given back to the loop
HoldsThread_Awaited(c) == 0

\* a synchronous call made by coroutine c keeps the loop's thread
HoldsThread(c) == c

\* the next position of a coroutine whose attempt n ended with e
AfterAttempt(v, e, n) ==
    IF ShouldRetry(e, n) THEN [pc |-> "request", svc |-> v, n |-> n + 1]
    ELSE Parked

Sessions == {"yunyu", "redsea"}
AnswersOf(v) == IF v = "yunyu" THEN YunYuAnswers ELSE RedSeaAnswers

\* what one re-authentication of the billing session can come to:
\* <<session after, exception raised by the hook, accesses made>>
YunYu_reauth_outcomes(s) ==
    {LET r == YunYu_refresh_access_token(s, a)
     IN  <<r.s, IF r.exc # NoExc THEN r.exc ELSE Unauthorized,
           YunYu_reauth_accesses(a, r.calls)>> : a \in YunYuScripts}

\* the same for the attendance session, on first use (_init) or on a marker
RedSea_reauth_outcomes(s, first) ==
    {LET r == IF first THEN RedSea_init(s, x[1], x[2]) ELSE RedSea_login(s, x[1])
     IN  <<r.s, IF r.exc # NoExc THEN r.exc ELSE Unauthorized,
           IF first THEN RedSea_init_accesses(r) ELSE RedSea_login_accesses(r)>> :
        x \in RedSeaScripts \X {"data", "none"}}

\* a task function awaits a public operation of a session; the coroutines
\* are named in the order in which they are needed
Loop_call(c) ==
    /\ thread = 0 /\ co[c].pc = "idle"
    /\ \A d \in Coroutines : d < c => co[d].pc # "idle"
    /\ \E v \in Sessions :
         co' = [co EXCEPT ![c] = [pc |-> "request", svc |-> v, n |-> 1]]
    /\ accessed' = {}
    /\ UNCHANGED <<thread, sessionVars, callVars, taskVars, regVars, last, req>>

\* the request hook of the session; the request is then on the wire and
\* the coroutine awaits the answer
Loop_request_interceptor(c) ==
    /\ thread = 0 /\ co[c].pc = "request"
    /\ IF co[c].svc = "yunyu"
       THEN /\ co' = [co EXCEPT ![c].pc = "wire"]
            /\ accessed' = {Acc("_yunyu.py:103", "read", FALSE)}
            /\ UNCHANGED thread
       ELSE /\ accessed' = {Acc("_redsea.py:81", "read", FALSE)}
            /\ IF redsea.user = NoUser
               THEN /\ co' = [co EXCEPT ![c].pc = "init"]
                    /\ thread' = HoldsThread(c)
               ELSE /\ co' = [co EXCEPT ![c].pc = "wire"]
                    /\ UNCHANGED thread
    /\ UNCHANGED <<sessionVars, callVars, taskVars, regVars, last, req>>

\* the answer arrives and the response hook runs: on a marker it starts the
\* re-authentication; otherwise the attempt ends
Loop_response_interceptor(c) ==
    /\ thread = 0 /\ co[c].pc = "wire"
    /\ accessed' = {}
    /\ \E ans \in AnswersOf(co[c].svc) :
         CASE YunYuMarker(ans) \/ RedSeaMarker(ans) ->
                /\ co' = [co EXCEPT ![c].pc = "reauth"]
                /\ thread' = HoldsThread(c)
           [] ans = "timeout" ->
                /\ co' = [co EXCEPT ![c] = AfterAttempt(co[c].svc, Timeout, co[c].n)]
                /\ UNCHANGED thread
           [] OTHER ->
                /\ co' = [co EXCEPT ![c] = Parked]
                /\ UNCHANGED thread
    /\ UNCHANGED <<sessionVars, callVars, taskVars, regVars, last, req>>

\* the server has answered the synchronous exchanges of the
\* re-authentication; the hook raises and the thread is free again
Loop_reauthenticated(c) ==
    /\ thread \in {0, c} /\ co[c].pc \in {"reauth", "init"}
    /\ thread' = 0
    /\ IF co[c].svc = "yunyu"
       THEN \E r \in YunYu_reauth_outcomes(yunyu) :
              /\ yunyu' = r[1] /\ accessed' = r[3]
              /\ co' = [co EXCEPT ![c] = AfterAttempt("yunyu", r[2], co[c].n)]
              /\ UNCHANGED redsea
       ELSE \E r \in RedSea_reauth_outcomes(redsea, co[c].pc = "init") :
              /\ redsea' = r[1] /\ accessed' = r[3]
              /\ co' = [co EXCEPT ![c] = AfterAttempt("redsea", r[2], co[c].n)]
              /\ UNCHANGED yunyu
    /\ UNCHANGED <<callVars, taskVars, regVars, last, req>>

NextLoop ==
    \/ \E c \in Coroutines : Loop_call(c)
    \/ \E c \in Coroutines : Loop_request_interceptor(c)
    \/ \E c \in Coroutines : Loop_response_interceptor(c)
    \/ \E c \in Coroutines : Loop_reauthenticated(c)

SpecLoop == Init /\ [][NextLoop]_vars

\* C19: every read and every write of a credential is made with the
\* session's lock held.
C19_AccessUnderLock ==
    \A a \in accessed : a.locked

\* the coroutines whose re-authentication of session v is in flight
InFlight(v) ==
    {c \in Coroutines : co[c].pc \in {"reauth", "init"}
                          /\ co[c].svc = v}

\* C20: per session at most one re-authentication is in flight, also while
\* other operations of that session are under way.
C20_OneReauthInFlight ==
    \A v \in Sessions : Cardinality(InFlight(v)) <= 1

C20_Witness ==
    \E c, d \in Coroutines :
        /\ c # d /\ co[c].pc = "reauth" /\ co[d].pc = "wire"
        /\ co[c].svc = "yunyu" /\ co[d].svc = "yunyu"
        /\ co[d].n = 2 /\ yunyu.access_token # ""

\* C21: while a coroutine waits on a network call (the request on the wire,
\* or an exchange of a re-authentication or of the first-use
\* initialisation) the loop's thread is free for the other coroutines.
C21_NetworkWaitFreesLoop ==
    \A c \in Coroutines :
        co[c].pc \in {"wire", "reauth", "init"} => thread = 0

KindIds(sch, kind) == {id \in DOMAIN sch : sch[id].trigger = kind}

\* the list data names exactly the schedules of the store with that kind,
\* each once and in the order of creation (ids are handed out in order)
ListsExactly(data, kind) ==
    /\ {data[i].id : i \in DOMAIN data} = KindIds(schedules, kind)
    /\ \A i, j \in DOMAIN data : i < j => data[i].id < data[j].id

\* C23: GET /api/task/cron and GET /api/task/date answer with exactly the
\* schedules that exist in the scheduler with that trigger kind, each once,
\* in creation order, and with no id whose schedule is gone.
C23_ListIsStoreByKind ==
    [][/\ get_cron_task => ListsExactly(response'.data, "cron")
       /\ get_date_task => ListsExactly(response'.data, "date")]_vars

C23_Witness ==
    /\ response.success /\ Len(response.data) = Len(YUNYU_CRON) + Len(REDSEA_CRON)
    /\ \A i \in DOMAIN response.data : "running" \in DOMAIN response.data[i]
    /\ Len(db) = MaxIds
    /\ KindIds(schedules, "date") # {}
    /\ \E i \in DOMAIN response.data : ~response.data[i].running

\* C24: between re-authentications each billing token that was ever
\* assigned has a file whose content is the token held in memory.
C24_WriteThrough ==
    /\ yunyu.access_token # "" => yunyu.access_file = TextWrite(yunyu.access_token)
    /\ yunyu.refresh_token # "" => yunyu.refresh_file = TextWrite(yunyu.refresh_token)

\* an attempt of an attendance operation whose (re-)authentication was
\* refused by the server: RuntimeError raised inside a hook
AuthRefused(i) ==
    /\ op \in RedSeaOps /\ AttemptOver(i)
    /\ hist[i].exc = RuntimeErr /\ (hist[i].reauth > 0 \/ hist[i].init)

\* C25: a create_token or login refused by the attendance server raises out
\* of the hook at once, leaving cookies and profile as they were; that
\* attempt is the last of the call and its error is what the call raises.
C25_LoginFailureRaises ==
    /\ [][(op \in RedSeaOps /\ cpc \in {"request", "init_fetch", "response"}
             /\ exc' = RuntimeErr)
            => redsea' = redsea /\ cpc' = "retry"]_vars
    /\ [](\A i \in DOMAIN hist :
            AuthRefused(i) => /\ i = Len(hist)
                              /\ CallOver => ret = RuntimeErr)

C25_Witness ==
    /\ CallOver /\ AuthRefused(Len(hist)) /\ hist[Len(hist)].reauth = 1
    /\ redsea.cookies # "none" /\ redsea.user # NoUser
    /\ ret = RuntimeErr

(***************************************************************************)
(* API requests handled at the same time.  Each handler is a coroutine; at *)
(* every await of a scheduler method another coroutine may run.  A step    *)
(* below is the code of a handler from one await to the next.  The ids of  *)
(* db that name no schedule are those of tasks run at once (add_job) and   *)
(* of schedules removed by DELETE /api/task/date/{id}.                     *)
(***************************************************************************)
\* list.remove(x): the first element equal to x is taken out
Remove(d, x) ==
    LET k == CHOOSE k \in DOMAIN d :
                 d[k] = x /\ \A j \in 1..(k - 1) : d[j] # x
    IN  [j \in 1..(Len(d) - 1) |-> IF j < k THEN d[j] ELSE d[j + 1]]

Contains(d, x) == \E k \in DOMAIN d : d[k] = x

ListHandlers == {"get_cron_task", "get_date_task"}
KindOf(h) == IF h = "get_cron_task" THEN "cron" ELSE "date"

\* the entry a list handler appends for a task
ListEntry(h, t, sch) ==
    IF h = "get_cron_task"
    THEN [id |-> t.id, running |-> ~sch[t.id].paused, task_type |-> t.type]
    ELSE [id |-> t.id, task_type |-> t.type]

\* a request reaches its handler; the list handlers copy db (db[:]),
\* delete_all_date_task walks db itself
Req_begin(c) ==
    /\ started /\ req[c] = NoRequest
    /\ \A d \in Coroutines : d < c => req[d] # NoRequest
    /\ \E h \in ListHandlers \cup {"delete_all_date_task"} :
         req' = [req EXCEPT ![c] =
                   [h |-> h, snap |-> IF h \in ListHandlers THEN db ELSE <<>>,
                    i |-> 1, data |-> <<>>]]
    /\ UNCHANGED <<sessionVars, callVars, taskVars, regVars, last, loopVars>>

\* get_cron_task / get_date_task: one turn of the loop, or the return
Req_list(c) ==
    /\ req[c].h \in ListHandlers
    /\ LET r == req[c]
           t == r.snap[r.i]
       IN  CASE r.i > Len(r.snap) ->
                  /\ response' = ApiOk(FALSE, r.data)
                  /\ req' = [req EXCEPT ![c] = NoRequest]
                  /\ UNCHANGED db
             [] t.id \notin DOMAIN schedules /\ Contains(db, t) ->
                  /\ db' = Remove(db, t)
                  /\ req' = [req EXCEPT ![c].i = @ + 1]
                  /\ UNCHANGED response
             [] t.id \notin DOMAIN schedules /\ ~Contains(db, t) ->
                  \* db.remove(task) raises ValueError
                  /\ response' = global_exception_handler(FALSE)
                  /\ req' = [req EXCEPT ![c] = NoRequest]
                  /\ UNCHANGED db
             [] OTHER ->
                  /\ req' = [req EXCEPT
                       ![c].i = @ + 1,
                       ![c].data = IF schedules[t.id].trigger = KindOf(r.h)
                                   THEN Append(@, ListEntry(r.h, t, schedules))
                                   ELSE @]
                  /\ UNCHANGED <<db, response>>
    /\ UNCHANGED <<started, schedules, nextId, running, fired, origin, halted,
                   sessionVars, callVars, taskVars, last, loopVars>>

\* delete_all_date_task: one turn of the loop over db, or the return
Req_delete_all(c) ==
    /\ req[c].h = "delete_all_date_task"
    /\ LET r == req[c]
           id == db[r.i].id
       IN  CASE r.i > Len(db) ->
                  /\ response' = ApiOk(FALSE, <<>>)
                  /\ req' = [req EXCEPT ![c] = NoRequest]
                  /\ UNCHANGED <<schedules, halted>>
             [] id \in KindIds(schedules, "date") ->
                  /\ schedules' = Without(schedules, {id})
                  /\ halted' = halted \ {id}
                  /\ req' = [req EXCEPT ![c].i = @ + 1]
                  /\ UNCHANGED response
             [] OTHER ->
                  /\ req' = [req EXCEPT ![c].i = @ + 1]
                  /\ UNCHANGED <<schedules, halted, response>>
    /\ UNCHANGED <<started, db, nextId, running, fired, origin,
                   sessionVars, callVars, taskVars, last, loopVars>>

\* new_task up to its await: add_schedule or add_job has given the id
Req_new_task_add(c) ==
    /\ started /\ req[c] = NoRequest /\ nextId < MaxIds
    /\ \A d \in Coroutines : d < c => req[d] # NoRequest
    /\ \E type \in {"yunyu", "redsea"}, run_time \in {"none", "time"} :
         LET id == nextId + 1 IN
         /\ nextId' = id
         /\ req' = [req EXCEPT ![c] = [h |-> "new_task", id |-> id, type |-> type]]
         /\ IF run_time # "none"
            THEN /\ schedules' = With(schedules, id, Schedule("date", FuncOf(type)))
                 /\ origin' = [origin EXCEPT ![id] = "date"]
                 /\ UNCHANGED <<running, fired>>
            ELSE /\ Total(fired, MaxIds) < MaxFires
                 /\ origin' = [origin EXCEPT ![id] = "job"]
                 /\ fired' = [fired EXCEPT ![id] = 1]
                 /\ running' = [running EXCEPT ![id] = 1]
                 /\ UNCHANGED schedules
    /\ UNCHANGED <<started, db, halted, response,
                   sessionVars, callVars, taskVars, last, loopVars>>

\* new_task after the await: db.append and the answer
Req_new_task_append(c) ==
    /\ req[c].h = "new_task"
    /\ db' = Append(db, [id |-> req[c].id, type |-> req[c].type])
    /\ response' = ApiOk(FALSE, <<[id |-> req[c].id, task_type |-> req[c].type]>>)
    /\ req' = [req EXCEPT ![c] = NoRequest]
    /\ UNCHANGED <<started, schedules, nextId, running, fired, origin, halted,
                   sessionVars, callVars, taskVars, last, loopVars>>

NextRequests ==
    \/ lifespan
    \/ \E c \in Coroutines : Req_begin(c)
    \/ \E c \in Coroutines : Req_list(c)
    \/ \E c \in Coroutines : Req_delete_all(c)
    \/ \E c \in Coroutines : Req_new_task_add(c)
    \/ \E c \in Coroutines : Req_new_task_append(c)
    \/ delete_date_task

SpecRequests == Init /\ [][NextRequests]_vars

\* C26: no request interleaved with others ends in an internal error, and
\* db never holds an id twice.
C26_RequestsDoNotCollide ==
    /\ response.status # HTTP_500_INTERNAL_SERVER_ERROR
    /\ \A i, j \in DOMAIN db : i # j => db[i].id # db[j].id

\* C27: of the attempts of one call of touch_fish at most one check-in
\* takes effect on the server.
C27_OneCheckInPerCall ==
    op = "touch_fish" =>
        Cardinality({i \in DOMAIN hist : hist[i].applied}) <= 1

\* C28: DELETE /api/task/date/{id} and DELETE /api/task/date leave every
\* cron schedule in the store, with its trigger and paused flag.
C28_DeleteKeepsCrons ==
    [][(delete_date_task \/ delete_all_date_task)
         => \A id \in KindIds(schedules, "cron") :
               /\ id \in DOMAIN schedules'
               /\ schedules'[id].trigger = "cron"
               /\ schedules'[id].paused = schedules[id].paused]_vars

\* the steps of a public operation between its call and its end
CallStep ==
    \/ YunYu_request_interceptor
    \/ RedSea_request_interceptor
    \/ RedSea_fetch_user_info
    \/ Transmit
    \/ YunYu_response_interceptor
    \/ RedSea_response_interceptor
    \/ Decode
    \/ Retry

\* how far a call has come: attempts first, then the position within the
\* attempt, then the attempts of the first-use profile fetch
Stage(p) ==
    CASE p = "request" -> 1
      [] p = "init_fetch" -> 2
      [] p = "wire" -> 3
      [] p = "response" -> 4
      [] p = "decode" -> 5
      [] p = "retry" -> 6
      [] OTHER -> 0
Rank == (attempt * 7 + Stage(cpc)) * (MaxAttempts + 1) + iattempt
MaxRank == (MaxAttempts * 7 + 6) * (MaxAttempts + 1) + MaxAttempts

\* C29: a call of a public operation ends after a bounded number of steps,
\* each of which makes a bounded number of exchanges with the server:
\* while the call is in progress a step is always possible, every step
\* takes the call further, and there is a limit to how far it can get.
C29_CallTerminates ==
    /\ [](cpc # "idle" => ENABLED CallStep /\ Rank <= MaxRank)
    /\ [][(cpc # "idle" /\ cpc' # "idle") => Rank' > Rank]_vars

C29_Witness ==
    /\ CallOver /\ op \in RedSeaOps /\ Len(hist) = MaxAttempts
    /\ \A i \in DOMAIN hist : hist[i].init \/ hist[i].reauth > 0
    /\ iattempt = MaxAttempts /\ ret = RetryErr
    /\ redsea.user = NoUser

====
